---- MODULE Spec2Model ----
(***************************************************************************)
(* The access control action: the dashboard client of app/app.py (the      *)
(* render function's button handlers) driving the action's walkers         *)
(* (get_access, add_permission, enable_access, delete_permission, the      *)
(* user, group and membership walkers, import and export).                 *)
(*                                                                         *)
(* The walkers are written in access_control_action.jac; they are modelled *)
(* from sections 4.1, 4.2 and 4.5 of the specification, as the Identity    *)
(* Store and the Permission Store.                                         *)
(* Everything the client does (what it fetches, what it checks,            *)
(* the payloads it sends, the messages it shows) is modelled from app.py.  *)
(*                                                                         *)
(* User ids and group names are drawn from disjoint sets: the client       *)
(* offers both in one "Entity" list and tells them apart by name only.     *)
(***************************************************************************)
EXTENDS Integers, FiniteSets, Sequences, TLC

\* ------------------------------------------------------------------ bounds
\* The largest number of permission entries the store holds in the model.
MaxEntries == 2

\* ------------------------------------------------------------ the universe
UserNames == {"alice"}
GroupNames == {"staff", "all"}
\* The two group names the Groups tab never offers for deletion (app.py:303).
ReservedGroups == {"all", "any"}
Channels == {"web"}
Resources == {"report", "chat"}
AccessChoices == {"allow", "deny"}
\* The calls of the Add Permission run that may fail (call_api returning a
\* falsy response): get_groups (419), get_users (187), get_access (458) and
\* add_permission (506, 527).
AddCalls == {"get_groups", "get_users", "get_access", "add_permission"}
\* The failures told apart: none, each call alone, and get_access together
\* with the get_users of line 187 (the other combinations repeat these).
FailScenarios ==
    {{}, {"get_groups"}, {"get_access"}, {"get_users", "get_access"}, {"add_permission"}}

VARIABLES
    users,      \* Identity Store: the user ids
    groups,     \* Identity Store: the group names
    member,     \* Identity Store: membership edges <<user, group>>
    perms,      \* Permission Store: the entries
    msg,        \* the message the last handler showed (st.success, st.error)
    req,        \* the mutating request that handler issued: <<endpoint, group>>
    run         \* ConcSpec: the client's run that is between two of its calls

vars == <<users, groups, member, perms, msg, req, run>>

\* The two stores as one value, for the handlers, which are functions of it.
Stores == [users |-> users, groups |-> groups, member |-> member, perms |-> perms]

\* A permission entry.  Its key is (channel, resource, allow, entity).
Entry(c, r, a, e, g, en) ==
    [channel |-> c, resource |-> r, allow |-> a, entity |-> e, is_group |-> g,
     enabled |-> en]

SameKey(x, y) ==
    /\ x.channel = y.channel
    /\ x.resource = y.resource
    /\ x.allow = y.allow
    /\ x.entity = y.entity

NoRequest == <<"none", "">>

\* ------------------------------------------------- the messages of app.py
MsgGroupAllow == "User is in a GROUP that already has ALLOW access to this resource"
MsgGroupDeny == "User is in a GROUP that already has DENY access to this resource"
MsgDirectAllow == "User already has ALLOW access to this resource"
MsgDirectDeny == "User already has DENY access to this resource"
MsgNoConflict == ""
MsgUpdated == "Update successfully"
MsgUpdateFailed == "Failed to update permissions"
\* result.get on the stale list of line 191: the run ends in an exception.
MsgAttributeError == "AttributeError: 'list' object has no attribute 'get'"

\* ------------------------------------------- the walkers (from the spec)
\* get_access(channel, resource): the allow and the deny list, each item
\* carrying a context with user_id (a user) or name (a group).
AccessItem(e) ==
    IF e.is_group
    THEN [context |-> [name |-> e.entity], enabled |-> e.enabled]
    ELSE [context |-> [user_id |-> e.entity], enabled |-> e.enabled]

GetAccess(S, c, r) ==
    [allow |-> {AccessItem(e) : e \in {x \in S.perms :
                    x.channel = c /\ x.resource = r /\ x.allow}},
     deny |-> {AccessItem(e) : e \in {x \in S.perms :
                    x.channel = c /\ x.resource = r /\ ~x.allow}}]

\* get_groups(include_users = True): group name -> its users.
GetGroups(S) == [g \in S.groups |-> {u \in S.users : <<u, g>> \in S.member}]

\* get_users: the user ids (each as user['context']['user_id']).
GetUsers(S) == S.users

\* add_permission(channel, resource, entity, is_group, allow): putEntry with
\* enabled = true; the entry of the same key, if any, is replaced.
PutEntry(S, c, r, a, e, g, en) ==
    [S EXCEPT !.perms =
        {x \in S.perms : ~SameKey(x, Entry(c, r, a, e, g, en))}
            \cup {Entry(c, r, a, e, g, en)}]

\* ----------------------------------------- the Add Permission handler
\* ListFormatted, had the loop skipped the entries that are switched off.
ListFormattedEnabledOnly(list) ==
    {IF "user_id" \in DOMAIN item.context
     THEN item.context.user_id ELSE item.context.name :
        item \in {i \in list : i.enabled}}

\* Lines 470-491: the names listed, and the users of the groups listed.
ListFormatted(list) ==
    {IF "user_id" \in DOMAIN item.context
     THEN item.context.user_id ELSE item.context.name : item \in list}

ListGroup(list, groups_result) ==
    UNION {groups_result[item.context.name] : item \in {i \in list :
              /\ "user_id" \notin DOMAIN i.context
              /\ i.context.name \in DOMAIN groups_result}}

\* Lines 493-505: the branch taken, by the message it shows; MsgNoConflict
\* is the else branch, which issues add_permission.
ConflictMessage(result, groups_result, user_id) ==
    IF user_id \in ListGroup(result.deny, groups_result) THEN MsgGroupAllow
    ELSE IF user_id \in ListGroup(result.allow, groups_result) THEN MsgGroupDeny
    ELSE IF user_id \in ListFormatted(result.allow) THEN MsgDirectAllow
    ELSE IF user_id \in ListFormatted(result.deny) THEN MsgDirectDeny
    ELSE MsgNoConflict

\* Lines 419-429: groups_result is {} when get_groups fails.
GroupsResult(S, fail) ==
    IF "get_groups" \in fail THEN [g \in {} |-> {}] ELSE GetGroups(S)

\* Lines 426-444: the names the Entity box offers.
EntityChoices(S, fail) == DOMAIN GroupsResult(S, fail) \cup GetUsers(S)

\* Lines 463-466: result is assigned only when get_access succeeds; otherwise
\* it still holds what line 187 or 191 left in it: the list of users, or the
\* falsy response of a failed get_users.  "falsy" stands for None, a failed
\* response and the empty list alike.
StaleResult(S, fail) ==
    IF "get_users" \in fail \/ GetUsers(S) = {} THEN "falsy" ELSE "users"

\* Lines 506-516 and 527-537: the add_permission request and its outcome.
IssueAddPermission(S, channel, resource, user_id, access, is_group, fail) ==
    IF "add_permission" \in fail
    THEN [st |-> S, msg |-> MsgUpdateFailed, req |-> <<"add_permission", "">>]
    ELSE [st |-> PutEntry(S, channel, resource, access = "allow", user_id,
                          is_group, TRUE),
          msg |-> MsgUpdated, req |-> <<"add_permission", "">>]

\* Lines 455-542, the whole run of the handler.
AddPermissionHandler(S, channel, resource, user_id, access, fail) ==
    LET groups_result == GroupsResult(S, fail)
        result == GetAccess(S, channel, resource)
        conflict == ConflictMessage(result, groups_result, user_id)
    IN  IF "get_access" \notin fail
        THEN IF conflict # MsgNoConflict
             THEN [st |-> S, msg |-> conflict, req |-> NoRequest]
             ELSE IssueAddPermission(S, channel, resource, user_id, access,
                                     user_id \in DOMAIN groups_result, fail)
        ELSE IF StaleResult(S, fail) = "users"
             THEN [st |-> S, msg |-> MsgAttributeError, req |-> NoRequest]
             ELSE IssueAddPermission(S, channel, resource, user_id, access,
                                     user_id \in DOMAIN groups_result, fail)

\* ------------------------------- the identity walkers (from the spec)
\* Section 4.1.  Each walker answers [ok, st]: ok is FALSE for DuplicateEntity
\* and NotFound, which leave the stores as they are.
AddUserWalker(S, user_id) ==
    IF user_id \in S.users
    THEN [ok |-> FALSE, st |-> S]
    ELSE [ok |-> TRUE, st |-> [S EXCEPT !.users = @ \cup {user_id}]]

\* deleteUser cascades: the user's memberships and direct entries go too.
DeleteUserWalker(S, user_id) ==
    IF user_id \notin S.users
    THEN [ok |-> FALSE, st |-> S]
    ELSE [ok |-> TRUE,
          st |-> [S EXCEPT
                    !.users = @ \ {user_id},
                    !.member = {m \in @ : m[1] # user_id},
                    !.perms = {e \in @ : ~(e.entity = user_id /\ ~e.is_group)}]]

AddGroupWalker(S, name) ==
    IF name \in S.groups
    THEN [ok |-> FALSE, st |-> S]
    ELSE [ok |-> TRUE, st |-> [S EXCEPT !.groups = @ \cup {name}]]

\* deleteGroup fails for the reserved names; it removes the group, its
\* membership edges and the entries naming it.
DeleteGroupWalker(S, name) ==
    IF name \in ReservedGroups \/ name \notin S.groups
    THEN [ok |-> FALSE, st |-> S]
    ELSE [ok |-> TRUE,
          st |-> [S EXCEPT
                    !.groups = @ \ {name},
                    !.member = {m \in @ : m[2] # name},
                    !.perms = {e \in @ : ~(e.entity = name /\ e.is_group)}]]

AddSessionGroupWalker(S, user_id, group) ==
    IF user_id \notin S.users \/ group \notin S.groups
    THEN [ok |-> FALSE, st |-> S]
    ELSE [ok |-> TRUE, st |-> [S EXCEPT !.member = @ \cup {<<user_id, group>>}]]

RemoveUserWalker(S, group, user_id) ==
    IF <<user_id, group>> \notin S.member
    THEN [ok |-> FALSE, st |-> S]
    ELSE [ok |-> TRUE, st |-> [S EXCEPT !.member = @ \ {<<user_id, group>>}]]

\* --------------------------- the permission walkers (from the spec)
\* Section 4.2: setEnabled and removeEntry name (channel, resource, principal)
\* and act on the entry of that principal in whichever list it is found, the
\* allow list first.
Principal(user, group) ==
    IF group # "" THEN [entity |-> group, is_group |-> TRUE]
    ELSE [entity |-> user, is_group |-> FALSE]

EntriesOf(S, c, r, p) ==
    {e \in S.perms : /\ e.channel = c /\ e.resource = r
                     /\ e.entity = p.entity /\ e.is_group = p.is_group}

Found(S, c, r, p) ==
    IF \E e \in EntriesOf(S, c, r, p) : e.allow
    THEN CHOOSE e \in EntriesOf(S, c, r, p) : e.allow
    ELSE CHOOSE e \in EntriesOf(S, c, r, p) : ~e.allow

EnableAccessWalker(S, c, r, user, group, enabled) ==
    LET p == Principal(user, group)
    IN  IF EntriesOf(S, c, r, p) = {}
        THEN [ok |-> FALSE, st |-> S]
        ELSE [ok |-> TRUE,
              st |-> [S EXCEPT !.perms = (@ \ {Found(S, c, r, p)})
                        \cup {[Found(S, c, r, p) EXCEPT !.enabled = enabled]}]]

DeletePermissionWalker(S, c, r, user_id, group) ==
    LET p == Principal(user_id, group)
    IN  IF EntriesOf(S, c, r, p) = {}
        THEN [ok |-> FALSE, st |-> S]
        ELSE [ok |-> TRUE, st |-> [S EXCEPT !.perms = @ \ {Found(S, c, r, p)}]]

\* export_permissions: channel -> the entries of that channel, each with the
\* resource and the list it is in and an item naming a group or a user.
ExportItem(e) ==
    IF e.is_group THEN [group |-> e.entity, enabled |-> e.enabled]
    ELSE [user |-> e.entity, enabled |-> e.enabled]

ExportPermissions(S) ==
    [c \in {e.channel : e \in S.perms} |->
        {[resource |-> e.resource,
          list |-> IF e.allow THEN "allow" ELSE "deny",
          item |-> ExportItem(e)] : e \in {x \in S.perms : x.channel = c}}]

\* The report of export_permissions (section 4.5): the permissions and the
\* memberships, under the keys the client reads (app.py:30, 554).
ExportDocument(S) ==
    [type |-> "dict",
     value |-> [permissions |-> ExportPermissions(S), session_groups |-> S.member]]

\* ------------------------------------------- the client's other handlers
Shown(ok, st, good, bad, request) ==
    [st |-> st, msg |-> IF ok THEN good ELSE bad, req |-> request]

\* A call that fails in transport changes nothing.
Call(callOk, S, answer) ==
    IF callOk THEN answer ELSE [ok |-> FALSE, st |-> S]

\* Lines 147-162.
AddUserHandler(S, user_id, callOk) ==
    LET a == Call(callOk, S, AddUserWalker(S, user_id))
    IN  Shown(a.ok, a.st, "User added successfully",
              "Failed to add user. Ensure that the user ID is correct",
              <<"add_user", "">>)

\* DeleteUserHandler, had it shown success whatever delete_user answered.
DeleteUserHandlerAlwaysSuccess(S, user_id, callOk) ==
    LET a == Call(callOk, S, DeleteUserWalker(S, user_id))
    IN  Shown(TRUE, a.st, "User {user_id} removed successfully",
              "Failed to remove user '{user_id}'", <<"delete_user", "">>)

\* Lines 205-225.
DeleteUserHandler(S, user_id, callOk) ==
    LET a == Call(callOk, S, DeleteUserWalker(S, user_id))
    IN  Shown(a.ok, a.st, "User {user_id} removed successfully",
              "Failed to remove user '{user_id}'", <<"delete_user", "">>)

\* Lines 237-250.
AddGroupHandler(S, new_group, callOk) ==
    LET a == Call(callOk, S, AddGroupWalker(S, new_group))
    IN  Shown(a.ok, a.st, "Group added successfully",
              "Failed to add group. Ensure that the group is correct",
              <<"add_group", new_group>>)

\* Lines 287-297.
AddUserToGroupHandler(S, user_id, group, callOk) ==
    LET a == Call(callOk, S, AddSessionGroupWalker(S, user_id, group))
    IN  Shown(a.ok, a.st, "Group added successfully",
              "Failed to add group. Ensure that the group is correct",
              <<"add_session_group", group>>)

\* Lines 310-325.
DeleteGroupHandler(S, group_name, callOk) ==
    LET a == Call(callOk, S, DeleteGroupWalker(S, group_name))
    IN  Shown(a.ok, a.st, "Group {group_name} removed successfully",
              "Failed to remove group '{group_name}'",
              <<"delete_group", group_name>>)

\* Lines 350-378.
RemoveUserHandler(S, group_name, user, callOk) ==
    LET a == Call(callOk, S, RemoveUserWalker(S, group_name, user))
    IN  Shown(a.ok, a.st, "User '{user}' removed from '{group_name}'",
              "Failed to remove user '{user}' from '{group_name}'",
              <<"remove_user", group_name>>)

\* Lines 301-303: the groups the Groups tab lists.
ListedGroups(S) == {g \in DOMAIN GetGroups(S) : g \notin ReservedGroups}

\* Lines 556-585: the rows of the Permissions table.
Row(c, x) ==
    [enabled |-> IF "enabled" \in DOMAIN x.item THEN x.item.enabled ELSE FALSE,
     channel |-> c,
     resource |-> x.resource,
     permission |-> IF x.list = "allow" THEN "Allow" ELSE "Deny",
     entity |-> IF "group" \in DOMAIN x.item /\ x.item.group # ""
                THEN x.item.group
                ELSE IF "user" \in DOMAIN x.item THEN x.item.user ELSE "Unknown",
     type |-> IF "group" \in DOMAIN x.item /\ x.item.group # ""
              THEN "group" ELSE "user"]

FormattedPermissions(permissions) ==
    UNION {{Row(c, x) : x \in permissions[c]} : c \in DOMAIN permissions}

\* Lines 705-734.
EnableHandler(S, row, callOk) ==
    LET group == IF row.type = "group" THEN row.entity ELSE ""
        user == IF row.type = "group" THEN "" ELSE row.entity
        a == Call(callOk, S, EnableAccessWalker(S, row.channel, row.resource,
                                                user, group, ~row.enabled))
    IN  Shown(a.ok, a.st, "Updated successfully!", "Failed to update permission",
              <<"enable_access", group>>)

\* DeleteHandler, had it sent every row's entity as user_id (no group branch).
DeleteHandlerUserOnly(S, row, callOk) ==
    LET a == Call(callOk, S, DeletePermissionWalker(S, row.channel, row.resource,
                                                    row.entity, ""))
    IN  Shown(a.ok, a.st, "Permission successfully removed!",
              "Failed to delete permission", <<"delete_permission", "">>)

\* Lines 737-767.
DeleteHandler(S, row, callOk) ==
    LET group == IF row.type = "group" THEN row.entity ELSE ""
        user_id == IF row.type = "group" THEN "" ELSE row.entity
        a == Call(callOk, S, DeletePermissionWalker(S, row.channel, row.resource,
                                                    user_id, group))
    IN  Shown(a.ok, a.st, "Permission successfully removed!",
              "Failed to delete permission", <<"delete_permission", group>>)

\* ------------------------------------------------ import and export
\* The parsed input of the Import Permissions form (lines 96-108), by name.
\* A mapping is a function: a bare permissions mapping from channels, the
\* wrapper from "permissions" and "session_groups".
ImportInputNames ==
    {"none", "int", "str", "list", "contradictory", "disabled_group", "wrapper",
     "opposed"}

ImportInput(name) ==
    CASE name = "none" -> [type |-> "none", value |-> <<>>]
      [] name = "int" -> [type |-> "int", value |-> 7]
      [] name = "str" -> [type |-> "str", value |-> "allow alice"]
      [] name = "list" -> [type |-> "list", value |-> <<"alice">>]
      [] name = "contradictory" ->
            [type |-> "dict",
             value |-> [web |-> {
                [resource |-> "report", list |-> "allow",
                 item |-> [user |-> "alice", enabled |-> TRUE]],
                [resource |-> "report", list |-> "deny",
                 item |-> [user |-> "alice", enabled |-> TRUE]]}]]
      [] name = "disabled_group" ->
            [type |-> "dict",
             value |-> [web |-> {
                [resource |-> "chat", list |-> "deny",
                 item |-> [group |-> "staff", enabled |-> FALSE]]}]]
      [] name = "wrapper" ->
            [type |-> "dict",
             value |-> [permissions |-> [web |-> {
                            [resource |-> "report", list |-> "allow",
                             item |-> [group |-> "staff", enabled |-> TRUE]]}],
                        session_groups |-> {<<"alice", "staff">>}]]
      [] name = "opposed" ->
            [type |-> "dict",
             value |-> [permissions |-> [web |-> {
                            [resource |-> "chat", list |-> "allow",
                             item |-> [group |-> "staff", enabled |-> TRUE]],
                            [resource |-> "chat", list |-> "deny",
                             item |-> [user |-> "alice", enabled |-> TRUE]]}],
                        session_groups |-> {<<"alice", "staff">>}]]

\* import_permissions (section 4.5): an entry per (channel, resource, list,
\* item) of the document, written without any conflict check.
ImportedEntry(c, x) ==
    Entry(c, x.resource, x.list = "allow",
          IF "group" \in DOMAIN x.item THEN x.item.group ELSE x.item.user,
          "group" \in DOMAIN x.item,
          IF "enabled" \in DOMAIN x.item THEN x.item.enabled ELSE TRUE)

ImportedEntries(permissions) ==
    UNION {{ImportedEntry(c, x) : x \in permissions[c]} : c \in DOMAIN permissions}

ImportPermissionsWalker(S, permissions, session_groups, purge_collection) ==
    IF permissions.type # "dict"
    THEN [ok |-> FALSE, st |-> S]
    ELSE LET new == ImportedEntries(permissions.value)
             kept == IF purge_collection THEN {}
                     ELSE {e \in S.perms : \A n \in new : ~SameKey(e, n)}
             edges == IF purge_collection /\ session_groups # {}
                      THEN {} ELSE S.member
         IN  [ok |-> TRUE,
              st |-> [users |-> S.users \cup {m[1] : m \in session_groups},
                      groups |-> S.groups \cup {m[2] : m \in session_groups},
                      member |-> edges \cup session_groups,
                      perms |-> kept \cup new]]

\* ImportHandler, had it sent whatever was parsed (no test for None, no
\* exception on a number).
ImportHandlerUnguarded(S, data_to_import, purge_collection, callOk) ==
    LET wrapped == /\ data_to_import.type = "dict"
                   /\ "session_groups" \in DOMAIN data_to_import.value
                   /\ "permissions" \in DOMAIN data_to_import.value
        permissions == IF wrapped
                       THEN [type |-> "dict",
                             value |-> data_to_import.value.permissions]
                       ELSE data_to_import
        session_groups == IF wrapped
                          THEN data_to_import.value.session_groups ELSE {}
        a == Call(callOk, S, ImportPermissionsWalker(S, permissions,
                                 session_groups, purge_collection))
    IN  Shown(a.ok, a.st, "Import permissions successfully",
              "Failed to import permissions. Ensure that there is something to import.",
              <<"import_permissions", "">>)

\* ImportHandler, had it refused a document that names one principal in both
\* lists of a (channel, resource).
ImportHandlerChecked(S, data_to_import, purge_collection, callOk) ==
    LET wrapped == /\ data_to_import.type = "dict"
                   /\ "session_groups" \in DOMAIN data_to_import.value
                   /\ "permissions" \in DOMAIN data_to_import.value
        permissions == IF wrapped
                       THEN [type |-> "dict",
                             value |-> data_to_import.value.permissions]
                       ELSE data_to_import
        session_groups == IF wrapped
                          THEN data_to_import.value.session_groups ELSE {}
        a == Call(callOk, S, ImportPermissionsWalker(S, permissions,
                                 session_groups, purge_collection))
    IN  IF data_to_import.type = "none"
        THEN [st |-> S, msg |-> "No valid permissions data provided.",
              req |-> NoRequest]
        ELSE IF data_to_import.type = "int"
        THEN [st |-> S, msg |-> "Import failed: {e}", req |-> NoRequest]
        ELSE IF /\ data_to_import.type = "dict"
                /\ \E x, y \in ImportedEntries(permissions.value) :
                      /\ x.channel = y.channel
                      /\ x.resource = y.resource
                      /\ x.entity = y.entity
                      /\ x.allow # y.allow
        THEN [st |-> S, msg |-> "Import failed: {e}", req |-> NoRequest]
        ELSE Shown(a.ok, a.st, "Import permissions successfully",
                   "Failed to import permissions. Ensure that there is something to import.",
                   <<"import_permissions", "">>)

\* ImportHandler, had it sent purge_collection = True whatever the box says.
ImportHandlerPurging(S, data_to_import, purge_collection, callOk) ==
    LET wrapped == /\ data_to_import.type = "dict"
                   /\ "session_groups" \in DOMAIN data_to_import.value
                   /\ "permissions" \in DOMAIN data_to_import.value
        permissions == IF wrapped
                       THEN [type |-> "dict",
                             value |-> data_to_import.value.permissions]
                       ELSE data_to_import
        session_groups == IF wrapped
                          THEN data_to_import.value.session_groups ELSE {}
        a == Call(callOk, S, ImportPermissionsWalker(S, permissions,
                                 session_groups, TRUE))
    IN  IF data_to_import.type = "none"
        THEN [st |-> S, msg |-> "No valid permissions data provided.",
              req |-> NoRequest]
        ELSE IF data_to_import.type = "int"
        THEN [st |-> S, msg |-> "Import failed: {e}", req |-> NoRequest]
        ELSE Shown(a.ok, a.st, "Import permissions successfully",
                   "Failed to import permissions. Ensure that there is something to import.",
                   <<"import_permissions", "">>)

\* ImportHandler, had it sent purge_collection = False whatever the box says.
ImportHandlerMerging(S, data_to_import, purge_collection, callOk) ==
    LET wrapped == /\ data_to_import.type = "dict"
                   /\ "session_groups" \in DOMAIN data_to_import.value
                   /\ "permissions" \in DOMAIN data_to_import.value
        permissions == IF wrapped
                       THEN [type |-> "dict",
                             value |-> data_to_import.value.permissions]
                       ELSE data_to_import
        session_groups == IF wrapped
                          THEN data_to_import.value.session_groups ELSE {}
        a == Call(callOk, S, ImportPermissionsWalker(S, permissions,
                                 session_groups, FALSE))
    IN  IF data_to_import.type = "none"
        THEN [st |-> S, msg |-> "No valid permissions data provided.",
              req |-> NoRequest]
        ELSE IF data_to_import.type = "int"
        THEN [st |-> S, msg |-> "Import failed: {e}", req |-> NoRequest]
        ELSE Shown(a.ok, a.st, "Import permissions successfully",
                   "Failed to import permissions. Ensure that there is something to import.",
                   <<"import_permissions", "">>)

\* Lines 110-140.  "in" on an int raises TypeError, caught at line 139; on a
\* str or a list it answers False for these inputs.
ImportHandler(S, data_to_import, purge_collection, callOk) ==
    IF data_to_import.type = "none"
    THEN [st |-> S, msg |-> "No valid permissions data provided.", req |-> NoRequest]
    ELSE IF data_to_import.type = "int"
    THEN [st |-> S, msg |-> "Import failed: {e}", req |-> NoRequest]
    ELSE LET wrapped == /\ data_to_import.type = "dict"
                        /\ "session_groups" \in DOMAIN data_to_import.value
                        /\ "permissions" \in DOMAIN data_to_import.value
             permissions == IF wrapped
                            THEN [type |-> "dict",
                                  value |-> data_to_import.value.permissions]
                            ELSE data_to_import
             session_groups == IF wrapped
                               THEN data_to_import.value.session_groups ELSE {}
             a == Call(callOk, S, ImportPermissionsWalker(S, permissions,
                                      session_groups, purge_collection))
         IN  Shown(a.ok, a.st, "Import permissions successfully",
                   "Failed to import permissions. Ensure that there is something to import.",
                   <<"import_permissions", "">>)

\* Lines 34-58.
ExportHandler(S, callOk) ==
    [st |-> S,
     msg |-> IF callOk THEN "Export permissions successfully"
             ELSE "Failed to export permissions. Ensure that there is something to export",
     req |-> NoRequest]

\* ---------------------------------------------------------------- actions
Apply(out) ==
    /\ Cardinality(out.st.perms) <= MaxEntries
    /\ users' = out.st.users
    /\ groups' = out.st.groups
    /\ member' = out.st.member
    /\ perms' = out.st.perms
    /\ msg' = out.msg
    /\ req' = out.req

AddPermission(channel, resource, user_id, access, fail) ==
    /\ user_id \in EntityChoices(Stores, fail)
    /\ Apply(AddPermissionHandler(Stores, channel, resource, user_id, access, fail))
    /\ UNCHANGED run

AddUser(user_id, callOk) ==
    /\ Apply(AddUserHandler(Stores, user_id, callOk))
    /\ UNCHANGED run

DeleteUser(user_id, callOk) ==
    /\ user_id \in GetUsers(Stores)
    /\ Apply(DeleteUserHandler(Stores, user_id, callOk))
    /\ UNCHANGED run

AddGroup(new_group, callOk) ==
    /\ Apply(AddGroupHandler(Stores, new_group, callOk))
    /\ UNCHANGED run

AddUserToGroup(user_id, group, callOk) ==
    /\ user_id \in GetUsers(Stores)
    /\ group \in DOMAIN GetGroups(Stores)
    /\ Apply(AddUserToGroupHandler(Stores, user_id, group, callOk))
    /\ UNCHANGED run

DeleteGroup(group_name, callOk) ==
    /\ group_name \in ListedGroups(Stores)
    /\ Apply(DeleteGroupHandler(Stores, group_name, callOk))
    /\ UNCHANGED run

RemoveUser(group_name, user, callOk) ==
    /\ group_name \in ListedGroups(Stores)
    /\ user \in GetGroups(Stores)[group_name]
    /\ Apply(RemoveUserHandler(Stores, group_name, user, callOk))
    /\ UNCHANGED run

EnableAccess(row, callOk) ==
    /\ row \in FormattedPermissions(ExportPermissions(Stores))
    /\ Apply(EnableHandler(Stores, row, callOk))
    /\ UNCHANGED run

DeletePermission(row, callOk) ==
    /\ row \in FormattedPermissions(ExportPermissions(Stores))
    /\ Apply(DeleteHandler(Stores, row, callOk))
    /\ UNCHANGED run

ImportPermissions(name, purge_collection, callOk) ==
    /\ Apply(ImportHandler(Stores, ImportInput(name), purge_collection, callOk))
    /\ UNCHANGED run

ExportPermissionsClick(callOk) ==
    /\ Apply(ExportHandler(Stores, callOk))
    /\ UNCHANGED run

\* Lines 45-54 and 103-138: the document the Export Permissions run has just
\* shown (st.json) is pasted into the text area and imported.
ImportExported(purge_collection, callOk) ==
    /\ msg = "Export permissions successfully"
    /\ Apply(ImportHandler(Stores, ExportDocument(Stores), purge_collection, callOk))
    /\ UNCHANGED run

\* ------------------------------------------ two clients at the same time
\* The dashboard runs once per browser session, and a run's calls are
\* separate requests: between two calls of this client's run another client's
\* whole run may take place.  run holds this client's run between its reads
\* and its write; msg and req are this client's.  Every call succeeds here.
NoAdd == [channel |-> "", resource |-> "", entity |-> "", access |-> "",
          is_group |-> FALSE]
NoRow == [enabled |-> FALSE, channel |-> "", resource |-> "", permission |-> "",
          entity |-> "", type |-> ""]
Idle == [pc |-> "idle", add |-> NoAdd, row |-> NoRow]

\* Lines 419-505: get_groups, get_access and the conflict check.
AddCheck(channel, resource, user_id, access) ==
    LET groups_result == GroupsResult(Stores, {})
        conflict == ConflictMessage(GetAccess(Stores, channel, resource),
                                    groups_result, user_id)
    IN  /\ run.pc = "idle"
        /\ user_id \in EntityChoices(Stores, {})
        /\ IF conflict # MsgNoConflict
           THEN /\ msg' = conflict
                /\ req' = NoRequest
                /\ run' = run
           ELSE /\ run' = [pc |-> "checked",
                           add |-> [channel |-> channel, resource |-> resource,
                                    entity |-> user_id, access |-> access,
                                    is_group |-> user_id \in DOMAIN groups_result],
                           row |-> NoRow]
                /\ UNCHANGED <<msg, req>>
        /\ UNCHANGED <<users, groups, member, perms>>

\* Lines 506-524: the add_permission call of the run that found no conflict.
AddWrite ==
    /\ run.pc = "checked"
    /\ Apply(IssueAddPermission(Stores, run.add.channel, run.add.resource,
                                run.add.entity, run.add.access,
                                run.add.is_group, {}))
    /\ run' = Idle

\* Lines 546-704: export_permissions and the table, with the row clicked.
RowPick(row) ==
    /\ run.pc = "idle"
    /\ row \in FormattedPermissions(ExportPermissions(Stores))
    /\ run' = [pc |-> "picked", add |-> NoAdd, row |-> row]
    /\ UNCHANGED <<users, groups, member, perms, msg, req>>

\* Lines 737-767: the delete_permission call for that row.
RowDeleteCall ==
    /\ run.pc = "picked"
    /\ Apply(DeleteHandler(Stores, run.row, TRUE))
    /\ run' = Idle

\* Another client's whole run: its effect on the stores.
Other(out) ==
    /\ Cardinality(out.st.perms) <= MaxEntries
    /\ users' = out.st.users
    /\ groups' = out.st.groups
    /\ member' = out.st.member
    /\ perms' = out.st.perms
    /\ UNCHANGED <<msg, req, run>>

OtherAddUser(user_id) == Other(AddUserHandler(Stores, user_id, TRUE))

OtherAddPermission(channel, resource, user_id, access) ==
    /\ user_id \in EntityChoices(Stores, {})
    /\ Other(AddPermissionHandler(Stores, channel, resource, user_id, access, {}))

OtherDeletePermission(row) ==
    /\ row \in FormattedPermissions(ExportPermissions(Stores))
    /\ Other(DeleteHandler(Stores, row, TRUE))

Init ==
    /\ users = {}
    /\ groups = {"all"}
    /\ member = {}
    /\ perms = {}
    /\ msg = ""
    /\ req = NoRequest
    /\ run = Idle

Next ==
    \/ \E c \in Channels, r \in Resources, e \in UserNames \cup GroupNames,
          a \in AccessChoices, fail \in FailScenarios :
            AddPermission(c, r, e, a, fail)
    \/ \E u \in UserNames, ok \in BOOLEAN : AddUser(u, ok)
    \/ \E u \in UserNames, ok \in BOOLEAN : DeleteUser(u, ok)
    \/ \E g \in GroupNames, ok \in BOOLEAN : AddGroup(g, ok)
    \/ \E u \in UserNames, g \in GroupNames, ok \in BOOLEAN : AddUserToGroup(u, g, ok)
    \/ \E g \in GroupNames, ok \in BOOLEAN : DeleteGroup(g, ok)
    \/ \E g \in GroupNames, u \in UserNames, ok \in BOOLEAN : RemoveUser(g, u, ok)
    \/ \E row \in FormattedPermissions(ExportPermissions(Stores)), ok \in BOOLEAN :
            EnableAccess(row, ok)
    \/ \E row \in FormattedPermissions(ExportPermissions(Stores)), ok \in BOOLEAN :
            DeletePermission(row, ok)
    \/ \E name \in ImportInputNames, purge \in BOOLEAN, ok \in BOOLEAN :
            ImportPermissions(name, purge, ok)
    \/ \E ok \in BOOLEAN : ExportPermissionsClick(ok)
    \/ \E purge \in BOOLEAN, ok \in BOOLEAN : ImportExported(purge, ok)

Spec == Init /\ [][Next]_vars

ConcNext ==
    \/ \E c \in Channels, r \in Resources, e \in UserNames \cup GroupNames,
          a \in AccessChoices : AddCheck(c, r, e, a)
    \/ AddWrite
    \/ \E row \in FormattedPermissions(ExportPermissions(Stores)) : RowPick(row)
    \/ RowDeleteCall
    \/ \E u \in UserNames : OtherAddUser(u)
    \/ \E c \in Channels, r \in Resources, e \in UserNames \cup GroupNames,
          a \in AccessChoices : OtherAddPermission(c, r, e, a)
    \/ \E row \in FormattedPermissions(ExportPermissions(Stores)) :
            OtherDeletePermission(row)

ConcSpec == Init /\ [][ConcNext]_vars

\* ================================================================ claims
Listed(c, r, a) == {e \in perms : e.channel = c /\ e.resource = r /\ e.allow = a}

PrincipalsIn(list) == {<<e.entity, e.is_group>> : e \in list}

\* The classification a message announces (section 4.3 names them).
Classification(m) ==
    CASE m = MsgGroupAllow -> "InheritedAllowViaGroup"
      [] m = MsgGroupDeny -> "InheritedDenyViaGroup"
      [] m = MsgDirectAllow -> "DirectAllowExists"
      [] m = MsgDirectDeny -> "DirectDenyExists"
      [] OTHER -> "none"

ConflictMessages == {MsgGroupAllow, MsgGroupDeny, MsgDirectAllow, MsgDirectDeny}

DirectlyListed(c, r, e) ==
    \E x \in perms : x.channel = c /\ x.resource = r /\ x.entity = e

InGroupListed(c, r, u, a) ==
    \E m \in member : /\ m[1] = u
                      /\ \E x \in Listed(c, r, a) : x.is_group /\ x.entity = m[2]

\* Section 4.3 on the stores as they are: some classification other than
\* NoConflict applies to the candidate.
Covered(c, r, e) ==
    \/ DirectlyListed(c, r, e)
    \/ e \in users /\ \E a \in BOOLEAN : InGroupListed(c, r, e, a)

(* C1: for every (channel, resource), in every reachable state, no principal
   is in both the Allow list and the Deny list, and none is twice in one
   list. *)
C1_AllowDenyDisjoint ==
    \A c \in Channels, r \in Resources :
        /\ PrincipalsIn(Listed(c, r, TRUE)) \cap PrincipalsIn(Listed(c, r, FALSE)) = {}
        /\ \A a \in BOOLEAN : \A x, y \in Listed(c, r, a) :
              (x.entity = y.entity /\ x.is_group = y.is_group) => x = y

\* No member of a group that holds an entry holds a direct entry of the
\* opposite decision.
NoOpposingDirectGrant ==
    \A c \in Channels, r \in Resources, m \in member, a \in BOOLEAN :
        ~ /\ \E x \in Listed(c, r, a) : x.is_group /\ x.entity = m[2]
          /\ \E x \in Listed(c, r, ~a) : ~x.is_group /\ x.entity = m[1]

(* C2: no user that is a member of a group holding an entry for (channel,
   resource) holds a direct entry of the opposite decision; stated of the
   steps the claim names when every call of the run succeeds: a grant to a
   user or to a group and a membership edit keep it. *)
C2_GrantsKeepNoOpposingDirectGrant ==
    [][(/\ NoOpposingDirectGrant
        /\ \/ \E c \in Channels, r \in Resources, e \in UserNames \cup GroupNames,
                 a \in AccessChoices : AddPermission(c, r, e, a, {})
           \/ \E u \in UserNames, g \in GroupNames : AddUserToGroup(u, g, TRUE))
       => NoOpposingDirectGrant']_vars

(* C3: an Add Permission run changes the Permission Store only when no
   conflict classification applies to the candidate; when one applies the run
   shows a conflict message and changes nothing, and a run that succeeds adds
   exactly the one entry (allow iff chosen, enabled) and nothing else. *)
C3_AddOnlyWhenNoConflict ==
    [][\A c \in Channels, r \in Resources, e \in UserNames \cup GroupNames,
          a \in AccessChoices, fail \in FailScenarios :
          AddPermission(c, r, e, a, fail) =>
            /\ Covered(c, r, e) =>
                  /\ UNCHANGED <<users, groups, member, perms>>
                  /\ msg' \in ConflictMessages
            /\ (~Covered(c, r, e) /\ msg' = MsgUpdated) =>
                  /\ perms' = perms \cup
                        {Entry(c, r, a = "allow", e, e \in GroupNames, TRUE)}
                  /\ UNCHANGED <<users, groups, member>>]_vars

(* C4: for a user with no direct entry for (c, r), every call succeeding: in
   a group of the Deny list the run fails with InheritedDenyViaGroup, in a
   group of the Allow list with InheritedAllowViaGroup, whatever the access
   chosen, and in no listed group it is accepted. *)
C4_InheritedClassification ==
    [][\A c \in Channels, r \in Resources, u \in UserNames, a \in AccessChoices :
          (AddPermission(c, r, u, a, {}) /\ ~DirectlyListed(c, r, u)) =>
            /\ (InGroupListed(c, r, u, FALSE) /\ ~InGroupListed(c, r, u, TRUE)) =>
                  Classification(msg') = "InheritedDenyViaGroup"
            /\ (InGroupListed(c, r, u, TRUE) /\ ~InGroupListed(c, r, u, FALSE)) =>
                  Classification(msg') = "InheritedAllowViaGroup"
            /\ (~InGroupListed(c, r, u, TRUE) /\ ~InGroupListed(c, r, u, FALSE)) =>
                  msg' = MsgUpdated]_vars

(* C5: when an Add Permission run succeeds, a second run with the same
   arguments is rejected with DirectAllowExists or DirectDenyExists, as the
   first run's decision was, and the store holds one entry for the
   principal. *)
C5_SecondAddRejected ==
    \A c \in Channels, r \in Resources, e \in UserNames \cup GroupNames,
       a \in AccessChoices, fail \in FailScenarios :
        LET first == AddPermissionHandler(Stores, c, r, e, a, {})
            second == AddPermissionHandler(first.st, c, r, e, a, fail)
        IN  (/\ e \in EntityChoices(Stores, {})
             /\ e \in EntityChoices(first.st, fail)
             /\ first.msg = MsgUpdated) =>
                /\ Classification(second.msg) =
                      (IF a = "allow" THEN "DirectAllowExists" ELSE "DirectDenyExists")
                /\ second.st = first.st
                /\ Cardinality({x \in second.st.perms :
                      x.channel = c /\ x.resource = r /\ x.entity = e}) = 1

(* C6: of two Add Permission runs for the same (channel, resource) and
   principal with complementary decisions that run at the same time, at most
   one succeeds: the write of a run that found no conflict never succeeds
   when the complementary entry has been written meanwhile. *)
C6_AtMostOneSucceeds ==
    [][(AddWrite /\ msg' = MsgUpdated) =>
          ~\E x \in perms : /\ x.channel = run.add.channel
                            /\ x.resource = run.add.resource
                            /\ x.entity = run.add.entity
                            /\ x.allow # (run.add.access = "allow")]_vars

Toggled(S, e) ==
    [S EXCEPT !.perms = (@ \ {e}) \cup {[e EXCEPT !.enabled = ~@]}]

(* C7: the conflict check does not read the enabled flag: with any one entry
   switched, the check and the whole Add Permission run show the same
   message for every candidate; and a disabled entry still makes the run for
   its principal, or for a user of its group, end in a conflict message with
   the store as it was. *)
C7_ClassifyIgnoresEnabled ==
    \A e \in perms, c \in Channels, r \in Resources, cand \in UserNames \cup GroupNames,
       a \in AccessChoices :
        /\ ConflictMessage(GetAccess(Stores, c, r), GetGroups(Stores), cand)
              = ConflictMessage(GetAccess(Toggled(Stores, e), c, r),
                                GetGroups(Stores), cand)
        /\ \A fail \in FailScenarios :
              AddPermissionHandler(Stores, c, r, cand, a, fail).msg
                = AddPermissionHandler(Toggled(Stores, e), c, r, cand, a, fail).msg
        /\ (/\ ~e.enabled
            /\ c = e.channel
            /\ r = e.resource
            /\ \/ cand = e.entity
               \/ e.is_group /\ cand \in users /\ <<cand, e.entity>> \in member) =>
              LET out == AddPermissionHandler(Stores, c, r, cand, a, {})
              IN  out.st = Stores /\ out.msg \in ConflictMessages

\* A run for alice was rejected against her one entry, a disabled Deny.
C7_DisabledDenyRejects ==
    /\ perms = {Entry("web", "report", FALSE, "alice", FALSE, FALSE)}
    /\ msg = MsgDirectDeny
    /\ req = NoRequest

\* The entry a row of the table shows.
RowEntries(row) ==
    {e \in perms : /\ e.channel = row.channel
                   /\ e.resource = row.resource
                   /\ e.allow = (row.permission = "Allow")
                   /\ e.entity = row.entity
                   /\ e.is_group = (row.type = "group")}

RowAfter(S, row) ==
    CHOOSE x \in FormattedPermissions(ExportPermissions(S)) :
        /\ x.channel = row.channel
        /\ x.resource = row.resource
        /\ x.permission = row.permission
        /\ x.entity = row.entity
        /\ x.type = row.type

(* C8: toggling a row twice, each request carrying the negation of the
   entry's enabled value at the time, returns the store to what it was, and
   no toggle changes any entry other than the row's, nor any entry's decision
   or principal. *)
C8_ToggleTouchesOnlyItsEntry ==
    [][\A row \in FormattedPermissions(ExportPermissions(Stores)) :
          EnableAccess(row, TRUE) =>
            /\ \A e \in perms \ RowEntries(row) : e \in perms'
            /\ {[e EXCEPT !.enabled = TRUE] : e \in perms'}
                  = {[e EXCEPT !.enabled = TRUE] : e \in perms}
            /\ LET once == EnableHandler(Stores, row, TRUE).st
               IN  EnableHandler(once, RowAfter(once, row), TRUE).st = Stores]_vars

\* The entries of the principal the picked row names, in either list.
PickedEntries ==
    {e \in perms : /\ e.channel = run.row.channel
                   /\ e.resource = run.row.resource
                   /\ e.entity = run.row.entity
                   /\ e.is_group = (run.row.type = "group")}

(* C9: a delete_permission call for a principal with no entry under the
   (channel, resource) fails and leaves both stores as they were; when an
   entry exists, one entry of that principal is removed and nothing else
   changes. *)
C9_DeleteExactlyTheEntry ==
    [][RowDeleteCall =>
          /\ UNCHANGED <<users, groups, member>>
          /\ IF PickedEntries = {}
             THEN perms' = perms /\ msg' = "Failed to delete permission"
             ELSE /\ \E e \in PickedEntries : perms' = perms \ {e}
                  /\ msg' = "Permission successfully removed!"]_vars

\* The call found no entry: another client had removed the row's meanwhile.
C9_DeleteFoundNothing ==
    /\ msg = "Failed to delete permission"
    /\ req[1] = "delete_permission"
    /\ run.pc = "idle"

(* C10: after a Delete User run that succeeds, the user is in no group and
   no entry names the user, so get_access lists the user for no (channel,
   resource); the entries of other principals, the other users and the
   groups are as they were. *)
C10_DeleteUserCascades ==
    [][\A u \in UserNames, ok \in BOOLEAN :
          (DeleteUser(u, ok) /\ msg' = "User {user_id} removed successfully") =>
            /\ users' = users \ {u}
            /\ groups' = groups
            /\ member' = {m \in member : m[1] # u}
            /\ perms' = {e \in perms : e.is_group \/ e.entity # u}
            /\ \A c \in Channels, r \in Resources :
                  LET after == GetAccess([users |-> users', groups |-> groups',
                                          member |-> member', perms |-> perms'], c, r)
                  IN  u \notin ListFormatted(after.allow \cup after.deny)]_vars

\* alice has been deleted: no user and no membership is left, and the one
\* entry, a group's, is still there.
C10_UserDeleted ==
    /\ msg = "User {user_id} removed successfully"
    /\ users = {}
    /\ member = {}
    /\ \E e \in perms : e.is_group
    /\ Cardinality(perms) = 1

\* The stores a document is imported into: this one, this one with no
\* entries, and this one holding one other entry instead.
ImportTargets(S) ==
    {[S EXCEPT !.perms = p] :
        p \in {S.perms, {}, {Entry("web", "chat", FALSE, "all", TRUE, TRUE)}}}

(* C11: importing, with Purge Collection ticked, the document that Export
   Permissions has just shown leaves the Permission Store as it was: the same
   (channel, resource, decision, principal, enabled) entries and no others;
   and so does importing that document into a store with no entries or with
   other entries. *)
C11_ExportImportRoundTrip ==
    [][ImportExported(TRUE, TRUE) =>
          /\ perms' = perms
          /\ msg' = "Import permissions successfully"
          /\ \A Q \in ImportTargets(Stores) :
                ImportHandler(Q, ExportDocument(Stores), TRUE, TRUE).st.perms
                    = perms]_vars

\* The exported document has been imported, and the store holds what it
\* held: one entry, alice's Allow, switched off.
C11_DisabledEntryRoundTripped ==
    /\ msg = "Import permissions successfully"
    /\ perms = {Entry("web", "report", TRUE, "alice", FALSE, FALSE)}

\* The entries the documents of ImportInput name, and the documents that are
\* bare permissions mappings.
DocumentEntries(name) ==
    CASE name = "contradictory" ->
            {Entry("web", "report", TRUE, "alice", FALSE, TRUE),
             Entry("web", "report", FALSE, "alice", FALSE, TRUE)}
      [] name = "disabled_group" ->
            {Entry("web", "chat", FALSE, "staff", TRUE, FALSE)}
      [] name = "wrapper" ->
            {Entry("web", "report", TRUE, "staff", TRUE, TRUE)}
      [] name = "opposed" ->
            {Entry("web", "chat", TRUE, "staff", TRUE, TRUE),
             Entry("web", "chat", FALSE, "alice", FALSE, TRUE)}
      [] OTHER -> {}

BareDocuments == {"contradictory", "disabled_group"}

(* C12: an import that succeeds with Purge Collection ticked leaves in the
   Permission Store exactly the entries of the document; without it, the
   entries of the document and every prior entry whose key the document does
   not name; and for a document that is a bare permissions mapping the users,
   the groups and the memberships are as they were, ticked or not. *)
C12_PurgeReplacesMergeKeeps ==
    [][\A name \in ImportInputNames, purge \in BOOLEAN :
          (/\ msg' = "Import permissions successfully"
           /\ ImportPermissions(name, purge, TRUE)) =>
            /\ DocumentEntries(name) # {}
            /\ DocumentEntries(name) \subseteq perms'
            /\ purge => perms' = DocumentEntries(name)
            /\ ~purge =>
                  /\ \A e \in perms :
                        (\A n \in DocumentEntries(name) : ~SameKey(e, n)) =>
                            e \in perms'
                  /\ perms' \subseteq perms \cup DocumentEntries(name)
            /\ name \in BareDocuments =>
                  UNCHANGED <<users, groups, member>>]_vars

\* A merge kept the prior entry: the entry of staff, which is not a group of
\* the Identity Store, came with the document, and the entry of all was
\* there before.
C12_MergeKeptPriorEntry ==
    /\ msg = "Import permissions successfully"
    /\ "staff" \notin groups
    /\ perms = {Entry("web", "report", TRUE, "all", TRUE, TRUE),
                Entry("web", "chat", FALSE, "staff", TRUE, FALSE)}

\* The documents that contradict themselves: "contradictory" names alice in
\* both lists of web/report, "opposed" names alice in the Deny list of
\* web/chat and her group staff in its Allow list.
ContradictoryDocuments == {"contradictory", "opposed"}

(* C13: the import of a document issues import_permissions whatever the
   document's entries are and whatever the store holds, and when the call
   answers it succeeds with every entry of the document written: a document
   naming alice in both lists of one (channel, resource), or alice against
   her group, is stored as it is. *)
C13_ImportBypassesConflictCheck ==
    \A name \in ContradictoryDocuments \cup BareDocuments \cup {"wrapper"},
       purge \in BOOLEAN :
        LET out == ImportHandler(Stores, ImportInput(name), purge, TRUE)
        IN  /\ out.req[1] = "import_permissions"
            /\ out.msg = "Import permissions successfully"
            /\ DocumentEntries(name) \subseteq out.st.perms
            /\ name = "opposed" => <<"alice", "staff">> \in out.st.member
            /\ name = "contradictory" =>
                  \E x, y \in out.st.perms :
                      /\ x.channel = y.channel
                      /\ x.resource = y.resource
                      /\ x.entity = y.entity
                      /\ x.allow /\ ~y.allow

\* The document naming alice in both lists of web/report has been imported:
\* the store holds both entries.
C13_ContradictionImported ==
    /\ msg = "Import permissions successfully"
    /\ req[1] = "import_permissions"
    /\ perms = {Entry("web", "report", TRUE, "alice", FALSE, TRUE),
                Entry("web", "report", FALSE, "alice", FALSE, TRUE)}

\* The parsed inputs that are not mappings: nothing, a number, a string, a
\* list.
MalformedInputs == {"none", "int", "str", "list"}

(* C14: an import whose parsed input is not a mapping (nothing, a number, a
   scalar string, a list) fails, whether Purge Collection is ticked or not:
   the run shows a failure message and the users, the groups, the memberships
   and the permission entries are as they were; for nothing and for a number
   the run ends before any request is issued. *)
C14_MalformedImportChangesNothing ==
    \A name \in MalformedInputs, purge \in BOOLEAN, ok \in BOOLEAN :
        LET out == ImportHandler(Stores, ImportInput(name), purge, ok)
        IN  /\ out.st = Stores
            /\ out.msg # "Import permissions successfully"
            /\ name = "none" =>
                  /\ out.msg = "No valid permissions data provided."
                  /\ out.req = NoRequest
            /\ name = "int" =>
                  /\ out.msg = "Import failed: {e}"
                  /\ out.req = NoRequest
            /\ name \in {"str", "list"} =>
                  out.msg = "Failed to import permissions. Ensure that there is something to import."

\* A number was given to import into a store holding an entry and a
\* membership: the run failed and both are still there.
C14_NumberRefused ==
    /\ msg = "Import failed: {e}"
    /\ req = NoRequest
    /\ perms # {}
    /\ member # {}

(* C15: an Add Permission run issues add_permission only when its get_access
   call succeeded; a run whose get_access call fails issues no add_permission
   and changes nothing. *)
C15_NoAddAfterFailedLookup ==
    [][\A c \in Channels, r \in Resources, e \in UserNames \cup GroupNames,
          a \in AccessChoices, fail \in FailScenarios :
          ("get_access" \in fail /\ AddPermission(c, r, e, a, fail)) =>
            /\ req' = NoRequest
            /\ UNCHANGED <<users, groups, member, perms>>]_vars

(* C16: delete_group fails for the reserved names all and any, and no
   delete_group, add_session_group or remove_user request the client issues
   names all or any. *)
C16_ReservedGroupsNeverTargeted ==
    /\ \A g \in ReservedGroups :
          LET a == DeleteGroupWalker(Stores, g)
          IN  ~a.ok /\ a.st = Stores
    /\ ~ /\ req[1] \in {"delete_group", "add_session_group", "remove_user"}
          /\ req[2] \in ReservedGroups

\* The candidate is itself in the Allow (a = TRUE) or the Deny list.
DirectIn(c, r, e, a) == \E x \in Listed(c, r, a) : x.entity = e

(* C17: every call succeeding, an Add Permission run for a candidate that is
   directly in the Allow list is rejected with DirectAllowExists, and for one
   directly in the Deny list (and not in the Allow list) with
   DirectDenyExists, also when the candidate is a user of a listed group; an
   inherited classification is shown only for candidates not directly
   listed. *)
C17_DirectBeforeInherited ==
    [][\A c \in Channels, r \in Resources, e \in UserNames \cup GroupNames,
          a \in AccessChoices :
          (req' = NoRequest /\ AddPermission(c, r, e, a, {})) =>
            /\ DirectIn(c, r, e, TRUE) =>
                  Classification(msg') = "DirectAllowExists"
            /\ (DirectIn(c, r, e, FALSE) /\ ~DirectIn(c, r, e, TRUE)) =>
                  Classification(msg') = "DirectDenyExists"
            /\ Classification(msg') \in
                    {"InheritedAllowViaGroup", "InheritedDenyViaGroup"} =>
                  ~DirectlyListed(c, r, e)]_vars

(* C18: every call succeeding, an Add Permission run for a user that is not
   directly listed and is a member both of a group in the Deny list and of a
   group in the Allow list of (channel, resource) is rejected with
   InheritedDenyViaGroup. *)
C18_InheritedDenyWins ==
    [][\A c \in Channels, r \in Resources, u \in UserNames, a \in AccessChoices :
          (/\ req' = NoRequest
           /\ AddPermission(c, r, u, a, {})
           /\ ~DirectlyListed(c, r, u)
           /\ InGroupListed(c, r, u, FALSE)
           /\ InGroupListed(c, r, u, TRUE)) =>
            Classification(msg') = "InheritedDenyViaGroup"]_vars
====
